---- MODULE Spec2Model ----
(***************************************************************************)
(* Model of waffle_dough's annotation records                              *)
(* (waffle_dough/field/annotation_info.py) and of its database service     *)
(* (waffle_dough/database/service.py).                                     *)
(*                                                                         *)
(* A caller invokes one operation at a time: a task-specific factory, the  *)
(* AnnotationInfo constructor, from_dict, or the test driver               *)
(* _test_annotation_info; it then observes the outcomes (records or        *)
(* raised errors) in `result` and drops them before the next call.         *)
(*                                                                         *)
(* Python values are tagged so that values of different Python types can   *)
(* be compared: None, Str(s), Num(n), Lst(<<..>>), Poly(<<<<..>>>>),       *)
(* Bool(b).  Keyword arguments are functions whose DOMAIN is the set of    *)
(* keywords actually passed, so an omitted argument and an explicit None   *)
(* are different inputs.  score is held in tenths (Num(5) is 0.5).         *)
(* Segmentations are polygon lists; run-length-encoded masks are not       *)
(* modelled.  Ids come from a counter: every generated id is fresh.        *)
(*                                                                         *)
(* Four specifications share the module, each moving its own variables     *)
(* and leaving the others at their initial values:                         *)
(*   Spec            one caller building records one call at a time;       *)
(*   SpecConcurrent  threads running AnnotationInfo.__init__ statement by  *)
(*                   statement, interleaved;                               *)
(*   SpecDatabase    a DatabaseService over an image table and an image    *)
(*                   directory;                                            *)
(*   SpecQuery       calls of DatabaseService._get_query_dict over the     *)
(*                   container objects they share.                         *)
(***************************************************************************)
EXTENDS Integers, Sequences, FiniteSets, TLC

VARIABLES nextId, call, result,
          table, pc, args, records,
          disk, images, nextImageId, svc, externalDeletion,
          heap, query

\* The caller's variables: the id generator, the last call, its outcomes.
annotationVars == <<nextId, call, result>>

\* The threads' variables: the class attribute extra_required_fields, and
\* each thread's position, keyword arguments and record under construction.
concurrentVars == <<table, pc, args, records>>

\* The service's variables: the files under image_directory, the image
\* table, the id generator, the last service call, and whether a file was
\* ever deleted from outside the service.
databaseVars == <<disk, images, nextImageId, svc, externalDeletion>>

\* The container objects _get_query_dict can reach, and its last call.
queryVars == <<heap, query>>

vars == <<annotationVars, concurrentVars, databaseVars, queryVars>>

\* Number of ids the id generator can hand out in one behaviour.
MaxId == 4

(***************************************************************************)
(* Python values                                                           *)
(***************************************************************************)
None == [none |-> TRUE]

Str(s) == [str |-> s]

Num(n) == [num |-> n]

Lst(l) == [list |-> l]

Poly(p) == [poly |-> p]

Bool(b) == [bool |-> b]

Uuid(n) == [uuid |-> n]

IsStr(v) == DOMAIN v = {"str"}

IsNum(v) == DOMAIN v = {"num"}

IsLst(v) == DOMAIN v = {"list"}

IsPoly(v) == DOMAIN v = {"poly"}

IsBool(v) == DOMAIN v = {"bool"}

\* d1 updated with the entries of d2 (dict.update / keyword binding).
Update(d1, d2) ==
    [k \in DOMAIN d1 \cup DOMAIN d2 |-> IF k \in DOMAIN d2 THEN d2[k] ELSE d1[k]]

SeqToSet(s) == {s[i] : i \in DOMAIN s}

Min(S) == CHOOSE x \in S : \A y \in S : x <= y

Max(S) == CHOOSE x \in S : \A y \in S : x >= y

Abs(x) == IF x < 0 THEN -x ELSE x

(***************************************************************************)
(* Task types and the record's attributes                                  *)
(***************************************************************************)
CLASSIFICATION == "classification"

OBJECT_DETECTION == "object_detection"

SEMANTIC_SEGMENTATION == "semantic_segmentation"

INSTANCE_SEGMENTATION == "instance_segmentation"

KEYPOINT_DETECTION == "keypoint_detection"

TEXT_RECOGNITION == "text_recognition"

REGRESSION == "regression"

TaskType ==
    {CLASSIFICATION, OBJECT_DETECTION, SEMANTIC_SEGMENTATION, INSTANCE_SEGMENTATION,
     KEYPOINT_DETECTION, TEXT_RECOGNITION, REGRESSION}

\* The declared fields of AnnotationInfo, with their Field(...) defaults.
\* image_id is Field(...): it has no default.
FieldDefaults ==
    [category_id |-> None, bbox |-> None, segmentation |-> None, area |-> None,
     keypoints |-> None, num_keypoints |-> None, caption |-> None, value |-> None,
     iscrowd |-> None, score |-> None, is_prediction |-> Bool(FALSE)]

Fields == {"image_id"} \cup DOMAIN FieldDefaults

\* BaseField adds the generated id and the task.
Attrs == {"id", "task"} \cup Fields

\* AnnotationInfo.extra_required_fields, in declaration order.
extra_required_fields ==
    [classification |-> <<"image_id", "category_id">>,
     object_detection |-> <<"image_id", "category_id", "bbox">>,
     semantic_segmentation |-> <<"image_id", "category_id", "segmentation">>,
     instance_segmentation |-> <<"image_id", "category_id", "segmentation">>,
     keypoint_detection |-> <<"image_id", "category_id", "keypoints">>,
     text_recognition |-> <<"image_id", "caption">>,
     regression |-> <<"image_id", "category_id", "value">>]

(***************************************************************************)
(* Geometry (waffle_dough.math), polygon segmentations and XYWH boxes      *)
(***************************************************************************)
\* Twice the signed shoelace area of one flat polygon x1,y1,x2,y2,...
RECURSIVE Shoelace2(_, _)
Shoelace2(p, i) ==
    IF i > Len(p) \div 2 THEN 0
    ELSE LET j == IF i = Len(p) \div 2 THEN 1 ELSE i + 1
         IN  p[2 * i - 1] * p[2 * j] - p[2 * j - 1] * p[2 * i] + Shoelace2(p, i + 1)

RECURSIVE SumAreas(_, _)
SumAreas(polys, i) ==
    IF i > Len(polys) THEN 0
    ELSE Abs(Shoelace2(polys[i], 1)) \div 2 + SumAreas(polys, i + 1)

\* get_segmentation_area(seg, SegmentationType.POLYGON)
get_segmentation_area(seg) == Num(SumAreas(seg.poly, 1))

\* get_segmentation_box(seg, SegmentationType.POLYGON): tight box, XYWH
get_segmentation_box(seg) ==
    LET xs == UNION {{seg.poly[i][j] : j \in {k \in DOMAIN seg.poly[i] : k % 2 = 1}}
                       : i \in DOMAIN seg.poly}
        ys == UNION {{seg.poly[i][j] : j \in {k \in DOMAIN seg.poly[i] : k % 2 = 0}}
                       : i \in DOMAIN seg.poly}
    IN  Lst(<<Min(xs), Min(ys), Max(xs) - Min(xs), Max(ys) - Min(ys)>>)

\* get_box_area(bbox, BoxType.XYWH)
get_box_area(bbox) == Num(bbox.list[3] * bbox.list[4])

(***************************************************************************)
(* Field validation (pydantic typing, then annotation_validator)           *)
(***************************************************************************)
\* The declared type of each field; None is allowed through to the
\* required-field check.
TypeOk(f, v) ==
    \/ v = None
    \/ /\ f \in {"image_id", "category_id", "caption"}
       /\ IsStr(v)
    \/ /\ f \in {"bbox", "keypoints"}
       /\ IsLst(v)
    \/ /\ f = "segmentation"
       /\ IsPoly(v)
    \/ /\ f \in {"area", "value", "score", "num_keypoints", "iscrowd"}
       /\ IsNum(v)
    \/ /\ f = "is_prediction"
       /\ IsBool(v)

\* validate_bbox with the length test loosened to "at least 4".
validate_bboxAtLeast4(v) ==
    v # None => /\ Len(v.list) >= 4
                /\ \A i \in DOMAIN v.list : v.list[i] >= 0

validate_bbox(v) ==
    v # None => /\ Len(v.list) = 4
                /\ \A i \in DOMAIN v.list : v.list[i] >= 0

\* validate_segmentation without the even-length test.
validate_segmentationNoParity(v) ==
    v # None => \A i \in DOMAIN v.poly : Len(v.poly[i]) >= 6

validate_segmentation(v) ==
    v # None => \A i \in DOMAIN v.poly :
                    /\ Len(v.poly[i]) % 2 = 0
                    /\ Len(v.poly[i]) >= 6

validate_area(v) == v # None => v.num >= 0

validate_keypoints(v) ==
    v # None => /\ Len(v.list) % 3 = 0
                /\ \A i \in DOMAIN v.list : i % 3 = 0 => v.list[i] \in {0, 1, 2}

validate_num_keypoints(v) == v # None => v.num >= 0

validate_value(v) == TRUE

validate_caption(v) == v # None => v.str # ""

validate_iscrowd(v) == v # None => v.num \in {0, 1}

\* score is held in tenths: 0 <= score <= 1
validate_score(v) == v # None => v.num \in 0..10

validate_is_prediction(v) == TRUE

\* The field validator of each field (check_bbox, check_segmentation, ...).
FieldValid(f, v) ==
    /\ TypeOk(f, v)
    /\ CASE f = "bbox" -> validate_bbox(v)
         [] f = "segmentation" -> validate_segmentation(v)
         [] f = "area" -> validate_area(v)
         [] f = "keypoints" -> validate_keypoints(v)
         [] f = "num_keypoints" -> validate_num_keypoints(v)
         [] f = "value" -> validate_value(v)
         [] f = "caption" -> validate_caption(v)
         [] f = "iscrowd" -> validate_iscrowd(v)
         [] f = "score" -> validate_score(v)
         [] f = "is_prediction" -> validate_is_prediction(v)
         [] OTHER -> TRUE

\* A type mismatch surfacing as a generic type error.
FieldErrorGeneric(f, v) ==
    IF TypeOk(f, v) THEN "FieldValidationError" ELSE "TypeError"

\* The error raised for an invalid field value: a value of the wrong type
\* and a value its validator rejects both raise FieldValidationError.
FieldError(f, v) == "FieldValidationError"

(***************************************************************************)
(* Outcomes of a call                                                      *)
(***************************************************************************)
Returned(r) == [kind |-> "record", rec |-> r]

Raised(e, f) == [kind |-> "error", err |-> e, field |-> f]

IsRecord(o) == o.kind = "record"

RaisedErr(o, e) == o.kind = "error" /\ o.err = e

(***************************************************************************)
(* BaseField: construction, equality, mapping form                         *)
(***************************************************************************)
\* The first attribute of the task's required-field list that is None,
\* or "" when there is none.
RECURSIVE FirstMissing(_, _, _)
FirstMissing(r, req, i) ==
    IF i > Len(req) THEN ""
    ELSE IF r[req[i]] = None THEN req[i]
    ELSE FirstMissing(r, req, i + 1)

\* The required-field check of the record's task.
CheckRequired(r, missing) ==
    IF missing # "" THEN Raised("FieldMissingError", missing) ELSE Returned(r)

\* Field validation of the initialised model, then the required-field check.
CheckFields(r) ==
    IF \E f \in Fields : ~FieldValid(f, r[f])
    THEN Raised(FieldError(CHOOSE f \in Fields : ~FieldValid(f, r[f]),
                           r[CHOOSE f \in Fields : ~FieldValid(f, r[f])]),
                CHOOSE f \in Fields : ~FieldValid(f, r[f]))
    ELSE CheckRequired(r, FirstMissing(r, extra_required_fields[r.task.str], 1))

\* BaseField.__init__: the model's own initialisation (generated id, field
\* defaults, field validation), then the required-field check of the task.
BaseFieldInit(kwargs, id) ==
    CheckFields(Update(Update([id |-> Uuid(id)], FieldDefaults), kwargs))

\* Equality that compares the generated id as well.
EqWithId(r1, r2) == \A a \in Attrs : r1[a] = r2[a]

\* BaseField.__eq__: every attribute except id.
Eq(r1, r2) == \A a \in Attrs \ {"id"} : r1[a] = r2[a]

\* BaseField.to_dict: the attributes that are set, the generated id included.
to_dict(r) == [a \in {b \in Attrs : r[b] # None} |-> r[a]]

(***************************************************************************)
(* AnnotationInfo                                                          *)
(***************************************************************************)
\* set_default_values, one operator per step, in the order of the source.
\* The bbox step assigning unconditionally: a supplied bbox is overwritten
\* and, without a segmentation, reset to None.
DeriveBboxOverwrite(r) ==
    IF r.segmentation # None
    THEN [r EXCEPT !.bbox = get_segmentation_box(r.segmentation)]
    ELSE [r EXCEPT !.bbox = None]

DeriveBbox(r) ==
    IF r.bbox = None /\ r.segmentation # None
    THEN [r EXCEPT !.bbox = get_segmentation_box(r.segmentation)]
    ELSE r

\* The area step taking the box area whenever a bbox is set.
DeriveAreaBoxFirst(r) ==
    IF r.area = None
    THEN IF r.bbox # None
         THEN [r EXCEPT !.area = get_box_area(r.bbox)]
         ELSE IF r.segmentation # None
              THEN [r EXCEPT !.area = get_segmentation_area(r.segmentation)]
              ELSE r
    ELSE r

DeriveArea(r) ==
    IF r.area = None
    THEN IF r.segmentation # None
         THEN [r EXCEPT !.area = get_segmentation_area(r.segmentation)]
         ELSE IF r.bbox # None
              THEN [r EXCEPT !.area = get_box_area(r.bbox)]
              ELSE r
    ELSE r

\* The iscrowd step left out.
DeriveIscrowdSkipped(r) == r

DeriveIscrowd(r) ==
    IF r.iscrowd = None /\ r.bbox # None THEN [r EXCEPT !.iscrowd = Num(0)] ELSE r

\* The num_keypoints step without its "is None" guard.
DeriveNumKeypointsOverwrite(r) ==
    IF r.keypoints # None
    THEN [r EXCEPT !.num_keypoints = Num(Len(r.keypoints.list) \div 3)]
    ELSE r

\* The num_keypoints step counting only the keypoints with visibility > 0.
DeriveNumKeypointsVisible(r) ==
    IF r.num_keypoints = None /\ r.keypoints # None
    THEN [r EXCEPT !.num_keypoints =
              Num(Cardinality({i \in DOMAIN r.keypoints.list :
                                   i % 3 = 0 /\ r.keypoints.list[i] > 0}))]
    ELSE r

DeriveNumKeypoints(r) ==
    IF r.num_keypoints = None /\ r.keypoints # None
    THEN [r EXCEPT !.num_keypoints = Num(Len(r.keypoints.list) \div 3)]
    ELSE r

\* The is_prediction step left out.
ForceIsPredictionSkipped(r) == r

ForceIsPrediction(r) ==
    IF r.score # None THEN [r EXCEPT !.is_prediction = Bool(TRUE)] ELSE r

set_default_values(r) ==
    ForceIsPrediction(DeriveNumKeypoints(DeriveIscrowd(DeriveArea(DeriveBbox(r)))))

\* The record after set_default_values, or the error super().__init__ raised.
AfterInit(o) == IF IsRecord(o) THEN Returned(set_default_values(o.rec)) ELSE o

\* Field validation, then set_default_values, then the required-field check.
DeriveThenCheck(r) ==
    IF \E f \in Fields : ~FieldValid(f, r[f])
    THEN Raised("FieldValidationError", CHOOSE f \in Fields : ~FieldValid(f, r[f]))
    ELSE CheckRequired(set_default_values(r),
                       FirstMissing(set_default_values(r),
                                    extra_required_fields[r.task.str], 1))

\* __init__ with the required-field check moved after set_default_values.
AnnotationInfoInitDeriveFirst(kwargs, id) ==
    DeriveThenCheck(Update(Update([id |-> Uuid(id)], FieldDefaults), kwargs))

\* AnnotationInfo.__init__: super().__init__(...), then set_default_values().
AnnotationInfoInit(kwargs, id) == AfterInit(BaseFieldInit(kwargs, id))

\* Python's binding of keyword arguments to a signature: every parameter
\* without a default must be passed, and no other keyword may be.
BindOk(required, defaults, kwargs) ==
    /\ required \subseteq DOMAIN kwargs
    /\ DOMAIN kwargs \subseteq required \cup DOMAIN defaults

\* A factory's body: cls(task=..., <every parameter>=<its bound value>).
Factory(task, required, defaults, kwargs, id) ==
    IF BindOk(required, defaults, kwargs)
    THEN AnnotationInfoInit(Update([task |-> Str(task)], Update(defaults, kwargs)), id)
    ELSE Raised("TypeError", "")

\* classification with image_id given a default of None.
classificationOptionalImageId(kwargs, id) ==
    Factory(CLASSIFICATION, {"category_id"}, [image_id |-> None, score |-> None],
            kwargs, id)

classification(kwargs, id) ==
    Factory(CLASSIFICATION, {"image_id", "category_id"}, [score |-> None], kwargs, id)

object_detection(kwargs, id) ==
    Factory(OBJECT_DETECTION, {"image_id", "category_id", "bbox"},
            [area |-> None, iscrowd |-> Num(0), score |-> None], kwargs, id)

semantic_segmentation(kwargs, id) ==
    Factory(SEMANTIC_SEGMENTATION, {"image_id", "category_id", "segmentation"},
            [bbox |-> None, area |-> None, iscrowd |-> Num(0), score |-> None],
            kwargs, id)

\* instance_segmentation not handing score on to the constructor.
instance_segmentationDropsScore(kwargs, id) ==
    Factory(INSTANCE_SEGMENTATION, {"image_id", "category_id", "segmentation"},
            [bbox |-> None, area |-> None, iscrowd |-> Num(0), score |-> None],
            Update(kwargs, [k \in DOMAIN kwargs \cap {"score"} |-> None]), id)

instance_segmentation(kwargs, id) ==
    Factory(INSTANCE_SEGMENTATION, {"image_id", "category_id", "segmentation"},
            [bbox |-> None, area |-> None, iscrowd |-> Num(0), score |-> None],
            kwargs, id)

keypoint_detection(kwargs, id) ==
    Factory(KEYPOINT_DETECTION, {"image_id", "category_id", "keypoints", "bbox"},
            [num_keypoints |-> None, area |-> None, segmentation |-> None,
             iscrowd |-> Num(0), score |-> None],
            kwargs, id)

regression(kwargs, id) ==
    Factory(REGRESSION, {"image_id", "category_id", "value"}, <<>>, kwargs, id)

\* text_recognition with category_id given a default of None.
text_recognitionOptionalCategoryId(kwargs, id) ==
    Factory(TEXT_RECOGNITION, {"image_id", "caption"},
            [category_id |-> None, score |-> None], kwargs, id)

text_recognition(kwargs, id) ==
    Factory(TEXT_RECOGNITION, {"image_id", "category_id", "caption"},
            [score |-> None], kwargs, id)

\* getattr(AnnotationInfo, task.lower())(**kwargs)
new_function(task, kwargs, id) ==
    CASE task = CLASSIFICATION -> classification(kwargs, id)
      [] task = OBJECT_DETECTION -> object_detection(kwargs, id)
      [] task = SEMANTIC_SEGMENTATION -> semantic_segmentation(kwargs, id)
      [] task = INSTANCE_SEGMENTATION -> instance_segmentation(kwargs, id)
      [] task = KEYPOINT_DETECTION -> keypoint_detection(kwargs, id)
      [] task = REGRESSION -> regression(kwargs, id)
      [] task = TEXT_RECOGNITION -> text_recognition(kwargs, id)

\* from_dict sending instance segmentation to the semantic_segmentation
\* factory.
from_dictWrongFactory(task, d, id) ==
    IF task = INSTANCE_SEGMENTATION THEN semantic_segmentation(d, id)
    ELSE new_function(task, d, id)

\* BaseField.from_dict(task, d): the task's factory with d's entries as
\* keyword arguments.
from_dict(task, d, id) == new_function(task, d, id)

(***************************************************************************)
(* UpdateAnnotationInfo                                                    *)
(***************************************************************************)
\* The declared fields: every one optional with default None, no image_id.
UpdateFieldDefaults ==
    [category_id |-> None, bbox |-> None, segmentation |-> None, area |-> None,
     keypoints |-> None, num_keypoints |-> None, caption |-> None, value |-> None,
     iscrowd |-> None, score |-> None, is_prediction |-> None]

UpdateFields == DOMAIN UpdateFieldDefaults

UpdateReturned(r) == [kind |-> "update", rec |-> r]

IsUpdate(o) == o.kind = "update"

\* The field validators of the model, in declaration order of the fields.
UpdateValidate(r) ==
    IF \E f \in UpdateFields : ~FieldValid(f, r[f])
    THEN Raised(FieldError(CHOOSE f \in UpdateFields : ~FieldValid(f, r[f]),
                           r[CHOOSE f \in UpdateFields : ~FieldValid(f, r[f])]),
                CHOOSE f \in UpdateFields : ~FieldValid(f, r[f]))
    ELSE UpdateReturned(r)

\* An update payload that runs the derivation step of AnnotationInfo.
UpdateAnnotationInfoInitDerives(kwargs) ==
    IF IsUpdate(UpdateValidate(Update(UpdateFieldDefaults,
                   [k \in DOMAIN kwargs \cap UpdateFields |-> kwargs[k]])))
    THEN UpdateReturned(set_default_values(Update(UpdateFieldDefaults,
                   [k \in DOMAIN kwargs \cap UpdateFields |-> kwargs[k]])))
    ELSE UpdateValidate(Update(UpdateFieldDefaults,
                   [k \in DOMAIN kwargs \cap UpdateFields |-> kwargs[k]]))

\* UpdateAnnotationInfo(**kwargs): the class has no __init__ of its own, so
\* only the declared fields are set (a keyword that is no field, such as
\* task, is dropped) and validated.
UpdateAnnotationInfoInit(kwargs) ==
    UpdateValidate(Update(UpdateFieldDefaults,
                          [k \in DOMAIN kwargs \cap UpdateFields |-> kwargs[k]]))

\* A factory's body: every parameter defaults to None.
UpdateFactory(task, params, kwargs) ==
    IF DOMAIN kwargs \subseteq params
    THEN UpdateAnnotationInfoInit(
             Update([task |-> Str(task)], Update([q \in params |-> None], kwargs)))
    ELSE Raised("TypeError", "")

UpdateAnnotationInfo_classification(kwargs) ==
    UpdateFactory(CLASSIFICATION, {"category_id", "score"}, kwargs)

UpdateAnnotationInfo_object_detection(kwargs) ==
    UpdateFactory(OBJECT_DETECTION,
                  {"category_id", "bbox", "area", "iscrowd", "score"}, kwargs)

UpdateAnnotationInfo_semantic_segmentation(kwargs) ==
    UpdateFactory(SEMANTIC_SEGMENTATION,
                  {"category_id", "segmentation", "bbox", "area", "iscrowd", "score"},
                  kwargs)

UpdateAnnotationInfo_instance_segmentation(kwargs) ==
    UpdateFactory(INSTANCE_SEGMENTATION,
                  {"category_id", "segmentation", "bbox", "area", "iscrowd", "score"},
                  kwargs)

UpdateAnnotationInfo_keypoint_detection(kwargs) ==
    UpdateFactory(KEYPOINT_DETECTION,
                  {"category_id", "keypoints", "bbox", "num_keypoints", "area",
                   "segmentation", "iscrowd", "score"}, kwargs)

UpdateAnnotationInfo_regression(kwargs) ==
    UpdateFactory(REGRESSION, {"category_id", "value"}, kwargs)

UpdateAnnotationInfo_text_recognition(kwargs) ==
    UpdateFactory(TEXT_RECOGNITION, {"category_id", "caption", "score"}, kwargs)

(***************************************************************************)
(* The inputs the caller draws from                                        *)
(***************************************************************************)
\* Marks a keyword the caller does not pass.
Omitted == [omitted |-> TRUE]

\* The keyword arguments actually passed.
Kwargs(f) == [p \in {q \in DOMAIN f : f[q] # Omitted} |-> f[p]]

UnitSquare == Poly(<<<<0, 0, 1, 0, 1, 1, 0, 1>>>>)

ImageIdArgs == {Omitted, None, Str("test")}

CategoryIdArgs == {Omitted, Str("test")}

ScoreArgs == {Omitted, Num(5)}

BboxArgs ==
    {Omitted, Lst(<<>>), Lst(<<0, 0, 1>>), Lst(<<0, 0, 1, 1>>), Lst(<<0, 0, 1, 1, 1>>),
     Lst(<<2, 3, 4, 5>>)}

AreaArgs == {Omitted, Str("asdf"), Num(7)}

IscrowdArgs == {Omitted, None, Num(1)}

SegmentationArgs ==
    {Omitted, UnitSquare,
     Poly(<<<<0, 0, 1, 0, 1, 1, 0>>>>),
     Poly(<<<<0, 0, 1, 0, 1, 1, 0, 1, 1>>>>),
     Poly(<<<<0, 0, 1, 1>>>>),
     Poly(<<<<1, 1, 3, 1, 3, 4, 1, 4>>, <<5, 5, 7, 5, 7, 7>>>>)}

KeypointsArgs == {Omitted, Lst(<<1, 1, 2, 2, 2, 0>>), Lst(<<1, 1>>)}

ClassificationInputs ==
    {Kwargs([image_id |-> i, category_id |-> c, score |-> s]) :
        i \in ImageIdArgs, c \in CategoryIdArgs \cup {None}, s \in ScoreArgs}

ObjectDetectionInputs ==
    {Kwargs([image_id |-> i, category_id |-> c, bbox |-> b, area |-> a,
             iscrowd |-> w, score |-> s]) :
        i \in ImageIdArgs, c \in CategoryIdArgs, b \in BboxArgs, a \in AreaArgs,
        w \in IscrowdArgs, s \in ScoreArgs}

SegmentationInputs ==
    {Kwargs([image_id |-> i, category_id |-> c, segmentation |-> g, bbox |-> b,
             area |-> a, iscrowd |-> w, score |-> s]) :
        i \in ImageIdArgs, c \in CategoryIdArgs, g \in SegmentationArgs,
        b \in {Omitted, Lst(<<2, 3, 4, 5>>)}, a \in AreaArgs, w \in IscrowdArgs,
        s \in ScoreArgs}

KeypointDetectionInputs ==
    {Kwargs([image_id |-> i, category_id |-> c, keypoints |-> k, bbox |-> b,
             num_keypoints |-> n, area |-> a, segmentation |-> g, score |-> s]) :
        i \in ImageIdArgs, c \in CategoryIdArgs, k \in KeypointsArgs,
        b \in {Omitted, None, Lst(<<2, 3, 4, 5>>)}, n \in {Omitted, Num(5)},
        a \in {Omitted, Str("asdf")}, g \in {Omitted, UnitSquare}, s \in ScoreArgs}

RegressionInputs ==
    {Kwargs([image_id |-> i, category_id |-> c, value |-> v]) :
        i \in ImageIdArgs, c \in CategoryIdArgs \cup {None},
        v \in {Omitted, None, Num(3)}}

TextRecognitionInputs ==
    {Kwargs([image_id |-> i, category_id |-> c, caption |-> t, score |-> s]) :
        i \in ImageIdArgs, c \in CategoryIdArgs \cup {None},
        t \in {Omitted, None, Str("text")}, s \in ScoreArgs}

Inputs(task) ==
    CASE task = CLASSIFICATION -> ClassificationInputs
      [] task = OBJECT_DETECTION -> ObjectDetectionInputs
      [] task = SEMANTIC_SEGMENTATION -> SegmentationInputs
      [] task = INSTANCE_SEGMENTATION -> SegmentationInputs
      [] task = KEYPOINT_DETECTION -> KeypointDetectionInputs
      [] task = REGRESSION -> RegressionInputs
      [] task = TEXT_RECOGNITION -> TextRecognitionInputs

\* Keyword arguments of a direct AnnotationInfo(...) call: task and image_id
\* are always passed.
ConstructorInputs ==
    {Kwargs([task |-> Str(t), image_id |-> i, category_id |-> c, bbox |-> b,
             segmentation |-> g, area |-> a, keypoints |-> x.keypoints,
             caption |-> x.caption, value |-> x.value, score |-> s,
             is_prediction |-> p]) :
        t \in TaskType, i \in {None, Str("test")}, c \in CategoryIdArgs,
        b \in {Omitted, Lst(<<2, 3, 4, 5>>), Lst(<<0, 0, 1>>)},
        g \in {Omitted, UnitSquare, Poly(<<<<0, 0, 1, 0, 1, 1, 0>>>>)},
        a \in {Omitted, Str("asdf")},
        x \in {[keypoints |-> Omitted, caption |-> Omitted, value |-> Omitted],
               [keypoints |-> Lst(<<1, 1, 2, 2, 2, 0>>), caption |-> Str("text"),
                value |-> Num(3)]},
        s \in ScoreArgs, p \in {Omitted, Bool(FALSE), Bool(TRUE)}}

\* Keyword arguments of the UpdateAnnotationInfo calls.
UpdateInputs ==
    {Kwargs([image_id |-> i, category_id |-> c, bbox |-> b, segmentation |-> g,
             keypoints |-> k, score |-> s]) :
        i \in {Omitted, Str("test")}, c \in CategoryIdArgs,
        b \in {Omitted, Lst(<<2, 3, 4, 5>>), Lst(<<0, 0, 1>>)},
        g \in {Omitted, UnitSquare}, k \in {Omitted, Lst(<<1, 1, 2, 2, 2, 0>>)},
        s \in ScoreArgs}

\* The calls a factory is driven with: within its parameters, or one
\* keyword outside them.
UpdateInputsOf(params) ==
    {k \in UpdateInputs : Cardinality(DOMAIN k \ params) <= 1}

(***************************************************************************)
(* State machine                                                           *)
(***************************************************************************)
NoCall == [op |-> "none"]

\* Ids are generated when the model is initialised, not when the call is
\* rejected for its arguments.
IdsUsed(o) == IF RaisedErr(o, "TypeError") THEN 0 ELSE 1

\* Number of threads constructing records at the same time.
NumThreads == 2

Threads == 1..NumThreads

\* No record yet.
NoOutcome == [kind |-> "none"]

\* The container objects _get_query_dict can reach: the default values of
\* its signature (created once, at definition), the containers a caller
\* passes, and the copies a call makes.
Containers == {"filter_by", "filter_in", "filter_like", "order_by"}

Default(c) == "default." \o c

Caller(c) == "caller." \o c

Local(c) == "local." \o c

Objects == {Default(c) : c \in Containers} \cup {Caller(c) : c \in Containers}
               \cup {Local(c) : c \in Containers}

\* The caller's own containers are not empty.
InitialHeap ==
    [o \in Objects |->
        CASE o = Caller("filter_by") -> [name |-> Str("x")]
          [] o = Caller("filter_in") -> [id |-> Lst(<<"i0">>)]
          [] o = Caller("filter_like") -> <<"name">>
          [] o = Caller("order_by") -> <<"id">>
          [] OTHER -> <<>>]

AnnotationInit ==
    /\ nextId = 1
    /\ call = NoCall
    /\ result = <<>>

ConcurrentInit ==
    /\ table = extra_required_fields
    /\ pc = [t \in Threads |-> "idle"]
    /\ args = [t \in Threads |-> <<>>]
    /\ records = [t \in Threads |-> NoOutcome]

\* A new database and an empty image directory.
DatabaseInit ==
    /\ disk = {}
    /\ images = {}
    /\ nextImageId = 1
    /\ svc = NoCall
    /\ externalDeletion = FALSE

QueryInit ==
    /\ heap = InitialHeap
    /\ query = NoCall

Init ==
    /\ AnnotationInit
    /\ ConcurrentInit
    /\ DatabaseInit
    /\ QueryInit

\* What the caller's operations leave alone.
outsideAnnotation == <<concurrentVars, databaseVars, queryVars>>

\* The caller is between calls and an id is left.
Ready == result = <<>> /\ nextId <= MaxId

\* The call and its outcome are recorded; the id generator moves on.
Record(c, o) ==
    /\ call' = c
    /\ result' = <<o>>
    /\ nextId' = nextId + IdsUsed(o)
    /\ UNCHANGED outsideAnnotation

\* One call of a factory.
Invoke(task, kwargs) ==
    Record([op |-> task, task |-> task, kwargs |-> kwargs],
           new_function(task, kwargs, nextId))

Classification ==
    /\ Ready
    /\ \E k \in ClassificationInputs : Invoke(CLASSIFICATION, k)

ObjectDetection ==
    /\ Ready
    /\ \E k \in ObjectDetectionInputs : Invoke(OBJECT_DETECTION, k)

SemanticSegmentation ==
    /\ Ready
    /\ \E k \in SegmentationInputs : Invoke(SEMANTIC_SEGMENTATION, k)

InstanceSegmentation ==
    /\ Ready
    /\ \E k \in SegmentationInputs : Invoke(INSTANCE_SEGMENTATION, k)

KeypointDetection ==
    /\ Ready
    /\ \E k \in KeypointDetectionInputs : Invoke(KEYPOINT_DETECTION, k)

Regression ==
    /\ Ready
    /\ \E k \in RegressionInputs : Invoke(REGRESSION, k)

TextRecognition ==
    /\ Ready
    /\ \E k \in TextRecognitionInputs : Invoke(TEXT_RECOGNITION, k)

\* AnnotationInfo(**kwargs)
Construct ==
    /\ Ready
    /\ \E k \in ConstructorInputs :
        Record([op |-> "AnnotationInfo", task |-> k.task.str, kwargs |-> k],
               AnnotationInfoInit(k, nextId))

\* The record just built and the outcome of reading back its mapping.
ReadBack(r, d, o) ==
    /\ call' = [op |-> "round_trip", task |-> r.task.str, kwargs |-> d]
    /\ result' = <<Returned(r), o>>
    /\ nextId' = nextId + IdsUsed(o)
    /\ UNCHANGED outsideAnnotation

\* AnnotationInfo.from_dict(task, record.to_dict()) on the record just built.
RoundTrip ==
    /\ Len(result) = 1
    /\ IsRecord(result[1])
    /\ nextId <= MaxId
    /\ ReadBack(result[1].rec, to_dict(result[1].rec),
                from_dict(result[1].rec.task.str, to_dict(result[1].rec), nextId))

\* tests/field/test_annotation_info.py, _test_annotation_info(task, kwargs, _):
\* annotation_1 from the factory, annotation_2 from from_dict, annotation_3
\* from the factory with image_id changed.  A raised error ends the test.
TestOutcomes(a1, a2, a3) ==
    IF ~IsRecord(a1) THEN <<a1>>
    ELSE IF ~IsRecord(a2) THEN <<a1, a2>>
    ELSE <<a1, a2, a3>>

TestDone(c, outs) ==
    /\ call' = c
    /\ result' = outs
    /\ nextId' = nextId + Len(SelectSeq(outs, LAMBDA o : IdsUsed(o) = 1))
    /\ UNCHANGED outsideAnnotation

\* kwargs.update({"image_id": annotation_1.image_id + "2"})
ChangedImageId(kwargs, a1) ==
    Update(kwargs, [image_id |-> Str(a1.rec.image_id.str \o "2")])

TestRun(task, kwargs, a1) ==
    TestDone([op |-> "_test_annotation_info", task |-> task, kwargs |-> kwargs],
             TestOutcomes(a1, from_dict(task, kwargs, nextId + 1),
                          new_function(task, ChangedImageId(kwargs, a1), nextId + 2)))

TestAnnotationInfo ==
    /\ result = <<>>
    /\ nextId + 2 <= MaxId
    /\ \E task \in TaskType :
        \E k \in Inputs(task) : TestRun(task, k, new_function(task, k, nextId))

\* The call and the payload it returned; no id is generated.
RecordUpdate(task, kwargs, o) ==
    /\ call' = [op |-> "UpdateAnnotationInfo", task |-> task, kwargs |-> kwargs]
    /\ result' = <<o>>
    /\ UNCHANGED nextId
    /\ UNCHANGED outsideAnnotation

\* UpdateAnnotationInfo(**kwargs)
UpdateConstruct ==
    /\ Ready
    /\ \E k \in UpdateInputs : RecordUpdate("", k, UpdateAnnotationInfoInit(k))

UpdateClassification ==
    /\ Ready
    /\ \E k \in UpdateInputsOf({"category_id", "score"}) :
        RecordUpdate(CLASSIFICATION, k, UpdateAnnotationInfo_classification(k))

UpdateObjectDetection ==
    /\ Ready
    /\ \E k \in UpdateInputsOf({"category_id", "bbox", "score"}) :
        RecordUpdate(OBJECT_DETECTION, k, UpdateAnnotationInfo_object_detection(k))

UpdateSemanticSegmentation ==
    /\ Ready
    /\ \E k \in UpdateInputsOf({"category_id", "bbox", "segmentation", "score"}) :
        RecordUpdate(SEMANTIC_SEGMENTATION, k,
                     UpdateAnnotationInfo_semantic_segmentation(k))

UpdateInstanceSegmentation ==
    /\ Ready
    /\ \E k \in UpdateInputsOf({"category_id", "bbox", "segmentation", "score"}) :
        RecordUpdate(INSTANCE_SEGMENTATION, k,
                     UpdateAnnotationInfo_instance_segmentation(k))

UpdateKeypointDetection ==
    /\ Ready
    /\ \E k \in UpdateInputsOf({"category_id", "bbox", "keypoints", "score"}) :
        RecordUpdate(KEYPOINT_DETECTION, k,
                     UpdateAnnotationInfo_keypoint_detection(k))

UpdateRegression ==
    /\ Ready
    /\ \E k \in UpdateInputsOf({"category_id"}) :
        RecordUpdate(REGRESSION, k, UpdateAnnotationInfo_regression(k))

UpdateTextRecognition ==
    /\ Ready
    /\ \E k \in UpdateInputsOf({"category_id", "score"}) :
        RecordUpdate(TEXT_RECOGNITION, k, UpdateAnnotationInfo_text_recognition(k))

\* The caller drops the outcomes.
Release ==
    /\ result # <<>>
    /\ call' = NoCall
    /\ result' = <<>>
    /\ UNCHANGED nextId
    /\ UNCHANGED outsideAnnotation

Next ==
    \/ Classification
    \/ ObjectDetection
    \/ SemanticSegmentation
    \/ InstanceSegmentation
    \/ KeypointDetection
    \/ Regression
    \/ TextRecognition
    \/ Construct
    \/ RoundTrip
    \/ TestAnnotationInfo
    \/ UpdateConstruct
    \/ UpdateClassification
    \/ UpdateObjectDetection
    \/ UpdateSemanticSegmentation
    \/ UpdateInstanceSegmentation
    \/ UpdateKeypointDetection
    \/ UpdateRegression
    \/ UpdateTextRecognition
    \/ Release

Spec == Init /\ [][Next]_vars

(***************************************************************************)
(* Concurrent constructions                                                *)
(***************************************************************************)
\* Record constructions the threads run.
ConcurrentInputs ==
    {[task |-> Str(CLASSIFICATION), image_id |-> Str("test"),
      category_id |-> Str("test")],
     [task |-> Str(INSTANCE_SEGMENTATION), image_id |-> Str("test"),
      category_id |-> Str("test"), segmentation |-> UnitSquare, score |-> Num(5)],
     [task |-> Str(KEYPOINT_DETECTION), image_id |-> Str("test"),
      category_id |-> Str("test"), keypoints |-> Lst(<<1, 1, 2, 2, 2, 0>>),
      bbox |-> Lst(<<2, 3, 4, 5>>)],
     [task |-> Str(OBJECT_DETECTION), image_id |-> Str("test"),
      category_id |-> Str("test"), segmentation |-> UnitSquare],
     [task |-> Str(OBJECT_DETECTION), image_id |-> Str("test"),
      category_id |-> Str("test"), bbox |-> Lst(<<0, 0, 1>>)]}

\* The required-field check reading the class attribute.
CheckFieldsIn(tbl, r) ==
    IF \E f \in Fields : ~FieldValid(f, r[f])
    THEN CheckFields(r)
    ELSE CheckRequired(r, FirstMissing(r, tbl[r.task.str], 1))

\* An attribute assignment that lands on the class, and so on every
\* instance, instead of on self.
setattrOnClass(rs, t, f, v) ==
    [u \in DOMAIN rs |->
        IF IsRecord(rs[u]) THEN [rs[u] EXCEPT !.rec[f] = v] ELSE rs[u]]

\* self.<f> = v in thread t.
setattr(rs, t, f, v) == [rs EXCEPT ![t].rec[f] = v]

concurrentOnly == UNCHANGED <<annotationVars, databaseVars, queryVars>>

\* A thread calls AnnotationInfo(**kwargs).
ThreadCall(t) ==
    /\ pc[t] = "idle"
    /\ \E k \in ConcurrentInputs : args' = [args EXCEPT ![t] = k]
    /\ pc' = [pc EXCEPT ![t] = "super_init"]
    /\ UNCHANGED <<table, records>>
    /\ concurrentOnly

\* super().__init__(*args, **kwargs)
ThreadSuperInit(t) ==
    /\ pc[t] = "super_init"
    /\ records' = [records EXCEPT ![t] =
           CheckFieldsIn(table, Update(Update([id |-> Uuid(t)], FieldDefaults),
                                       args[t]))]
    /\ pc' = [pc EXCEPT ![t] = IF IsRecord(records'[t]) THEN "bbox" ELSE "raised"]
    /\ UNCHANGED <<table, args>>
    /\ concurrentOnly

\* One statement of set_default_values: attribute f takes its value from
\* the step applied to the thread's own record.
ThreadStep(t, at, f, r, next) ==
    /\ pc[t] = at
    /\ records' = setattr(records, t, f, r[f])
    /\ pc' = [pc EXCEPT ![t] = next]
    /\ UNCHANGED <<table, args>>
    /\ concurrentOnly

ThreadBbox(t) ==
    /\ pc[t] = "bbox"
    /\ ThreadStep(t, "bbox", "bbox", DeriveBbox(records[t].rec), "area")

ThreadArea(t) ==
    /\ pc[t] = "area"
    /\ ThreadStep(t, "area", "area", DeriveArea(records[t].rec), "iscrowd")

ThreadIscrowd(t) ==
    /\ pc[t] = "iscrowd"
    /\ ThreadStep(t, "iscrowd", "iscrowd", DeriveIscrowd(records[t].rec),
                  "num_keypoints")

ThreadNumKeypoints(t) ==
    /\ pc[t] = "num_keypoints"
    /\ ThreadStep(t, "num_keypoints", "num_keypoints",
                  DeriveNumKeypoints(records[t].rec), "is_prediction")

ThreadIsPrediction(t) ==
    /\ pc[t] = "is_prediction"
    /\ ThreadStep(t, "is_prediction", "is_prediction",
                  ForceIsPrediction(records[t].rec), "done")

\* The thread drops its record or its error.
ThreadRelease(t) ==
    /\ pc[t] \in {"done", "raised"}
    /\ pc' = [pc EXCEPT ![t] = "idle"]
    /\ args' = [args EXCEPT ![t] = <<>>]
    /\ records' = [records EXCEPT ![t] = NoOutcome]
    /\ UNCHANGED table
    /\ concurrentOnly

NextConcurrent ==
    \E t \in Threads :
        \/ ThreadCall(t)
        \/ ThreadSuperInit(t)
        \/ ThreadBbox(t)
        \/ ThreadArea(t)
        \/ ThreadIscrowd(t)
        \/ ThreadNumKeypoints(t)
        \/ ThreadIsPrediction(t)
        \/ ThreadRelease(t)

SpecConcurrent == Init /\ [][NextConcurrent]_vars

(***************************************************************************)
(* DatabaseService: the image table and the image directory                *)
(***************************************************************************)
\* Number of image ids the id generator can hand out in one behaviour.
MaxImages == 3

\* File names, relative to image_directory.
Files == {"a.png", "b.png"}

\* A row of the image table.
Row(id, f) == [id |-> id, file_name |-> f]

\* image_repository.create(session, image_info): the table takes a row under
\* the record's generated id, whatever file names it already holds.
image_repository_create(tbl, id, f) == tbl \cup {Row(id, f)}

\* image_repository.remove(session, image_id)
image_repository_remove(tbl, id) == {r \in tbl : r.id # id}

\* get_images(): a dict from image id to ImageInfo.
get_images(tbl) == [i \in {r.id : r \in tbl} |-> CHOOSE r \in tbl : r.id = i]

\* list(map(lambda image: image.file_name, self.get_images())): iterating
\* the dict yields its keys, which are strings without a file_name.
db_image_file_names(d) ==
    IF DOMAIN d = {} THEN [err |-> "", names |-> {}]
    ELSE [err |-> "AttributeError", names |-> {}]

\* The orders in which a set of file names can be walked.
Orders(S) ==
    {o \in [1..Cardinality(S) -> S] : \A x \in S : \E k \in DOMAIN o : o[k] = x}

\* The last service call: its name, the file name or image id it was given,
\* the error it raised ("" when it returned) and the image table before it.
Served(op, arg, err) == [op |-> op, arg |-> arg, err |-> err, before |-> images]

databaseOnly == UNCHANGED <<annotationVars, concurrentVars, queryVars>>

\* add_image for every file missing in the database, in list order.
AddMissing(o) ==
    /\ images' = images \cup {Row(nextImageId + k - 1, o[k]) : k \in DOMAIN o}
    /\ nextImageId' = nextImageId + Len(o)

\* DatabaseService.__init__ / _sync_image_directory.  With rows in the
\* table it raises at the computation of db_image_file_names; with an empty
\* table every file on disk is missing in the database and is added, and
\* nothing is missing in the file system.
SyncImageDirectory ==
    /\ IF db_image_file_names(get_images(images)).err # ""
       THEN /\ svc' = Served("_sync_image_directory", "",
                             db_image_file_names(get_images(images)).err)
            /\ UNCHANGED <<images, nextImageId>>
       ELSE /\ nextImageId + Cardinality(disk) - 1 <= MaxImages
            /\ \E o \in Orders(disk \ db_image_file_names(get_images(images)).names) :
                   AddMissing(o)
            /\ svc' = Served("_sync_image_directory", "", "")
    /\ UNCHANGED <<disk, externalDeletion>>
    /\ databaseOnly

\* add_image(image_info) for a record naming file f.
AddImage(f) ==
    /\ IF f \notin disk
       THEN /\ svc' = Served("add_image", f, "FileNotFoundError")
            /\ UNCHANGED <<images, nextImageId>>
       ELSE /\ nextImageId <= MaxImages
            /\ images' = image_repository_create(images, nextImageId, f)
            /\ nextImageId' = nextImageId + 1
            /\ svc' = Served("add_image", f, "")
    /\ UNCHANGED <<disk, externalDeletion>>
    /\ databaseOnly

\* delete_image(image_id) for the id of a row: the row is removed, then the
\* file it names is unlinked.
DeleteImage(r) ==
    /\ r \in images
    /\ images' = image_repository_remove(images, r.id)
    /\ disk' = disk \ {r.file_name}
    /\ svc' = Served("delete_image", r.id, "")
    /\ UNCHANGED <<nextImageId, externalDeletion>>
    /\ databaseOnly

\* A file is put under image_directory from outside the service.
ExternalCreate(f) ==
    /\ f \notin disk
    /\ disk' = disk \cup {f}
    /\ svc' = Served("external", f, "")
    /\ UNCHANGED <<images, nextImageId, externalDeletion>>
    /\ databaseOnly

\* A file is deleted from outside the service.
ExternalDelete(f) ==
    /\ f \in disk
    /\ disk' = disk \ {f}
    /\ externalDeletion' = TRUE
    /\ svc' = Served("external", f, "")
    /\ UNCHANGED <<images, nextImageId>>
    /\ databaseOnly

NextDatabase ==
    \/ SyncImageDirectory
    \/ \E f \in Files : AddImage(f)
    \/ \E r \in images : DeleteImage(r)
    \/ \E f \in Files : ExternalCreate(f)
    \/ \E f \in Files : ExternalDelete(f)

SpecDatabase == Init /\ [][NextDatabase]_vars

(***************************************************************************)
(* DatabaseService._get_query_dict                                         *)
(***************************************************************************)
\* Python truthiness of an id argument: None, "" and [] are false.
Truthy(v) == v # None /\ v # Str("") /\ v # Lst(<<>>)

\* [v] if isinstance(v, str) else v
AsList(v) == IF IsStr(v) THEN Lst(<<v.str>>) ELSE v

\* The entry an id argument adds under key k, if it adds one.
Entry(k, v) == IF Truthy(v) THEN [x \in {k} |-> AsList(v)] ELSE <<>>

\* The name bound to the object it was passed, its copy never made.
copyAlias(obj, c) == obj

\* The object a container name is bound to after <name> = <name>.copy().
copy(obj, c) == Local(c)

\* The heap once the four copies are made: every copy holds the content of
\* the object it was made from.
Copies(h, passed) ==
    [o \in Objects |->
        IF \E c \in Containers : o = copy(passed[c], c)
        THEN h[passed[CHOOSE c \in Containers : o = copy(passed[c], c)]]
        ELSE h[o]]

\* <object>.update(entries)
update(h, obj, entries) == [h EXCEPT ![obj] = Update(h[obj], entries)]

\* The updates of filter_in, in statement order (annotation_id writes the
\* key id as well), then the update of filter_by.
Updates(h, a, passed) ==
    update(update(update(update(update(h,
        copy(passed["filter_in"], "filter_in"), Entry("id", a.id)),
        copy(passed["filter_in"], "filter_in"), Entry("image_id", a.image_id)),
        copy(passed["filter_in"], "filter_in"), Entry("category_id", a.category_id)),
        copy(passed["filter_in"], "filter_in"), Entry("id", a.annotation_id)),
        copy(passed["filter_by"], "filter_by"),
        IF Truthy(a.split_type) THEN [split |-> a.split_type] ELSE <<>>)

\* The returned query_dict, read off the heap the call leaves.
query_dict(h, a, passed) ==
    [filter_by |-> h[copy(passed["filter_by"], "filter_by")],
     filter_in |-> h[copy(passed["filter_in"], "filter_in")],
     filter_like |-> h[copy(passed["filter_like"], "filter_like")],
     order_by |-> h[copy(passed["order_by"], "order_by")],
     skip |-> None, limit |-> None]

\* The id arguments of a call; None is the default of each.
QueryArgs ==
    [id : {None, Str("i1"), Lst(<<"i1", "i2">>), Lst(<<>>)},
     image_id : {None, Str("im1")},
     category_id : {None, Lst(<<"c1">>)},
     annotation_id : {None, Str("a1")},
     split_type : {None, Str("train")}]

NoArgs ==
    [id |-> None, image_id |-> None, category_id |-> None,
     annotation_id |-> None, split_type |-> None]

\* The containers a call receives: the caller's own, or, for a container
\* the caller leaves out, the default of the signature.
PassedContainers ==
    {[c \in Containers |-> IF c \in own THEN Caller(c) ELSE Default(c)] :
        own \in {{}, {"filter_by"}, {"filter_in"}, Containers}}

queryOnly == UNCHANGED <<annotationVars, concurrentVars, databaseVars>>

\* Whether some call so far had one of the id arguments or split_type set.
Earlier == query.op = "_get_query_dict" /\ (query.earlier \/ query.args # NoArgs)

Answered(a, passed, h) ==
    /\ heap' = h
    /\ query' = [op |-> "_get_query_dict", args |-> a, passed |-> passed,
                 earlier |-> Earlier, ret |-> query_dict(h, a, passed)]

\* _get_query_dict(id, image_id, category_id, annotation_id, split_type,
\*                 filter_by, filter_in, filter_like, order_by)
GetQueryDict ==
    /\ \E a \in QueryArgs : \E passed \in PassedContainers :
           Answered(a, passed, Updates(Copies(heap, passed), a, passed))
    /\ queryOnly

NextQuery == GetQueryDict

SpecQuery == Init /\ [][NextQuery]_vars

(***************************************************************************)
(* Properties                                                              *)
(***************************************************************************)
\* result[1] is the outcome of one factory or constructor call with
\* call.kwargs.
Built == call.op \in TaskType \cup {"AnnotationInfo"}

\* The value the call passes for field f; a field that is not passed is None
\* (no required or derivation-source field has another default).
Passed(f) == IF f \in DOMAIN call.kwargs THEN call.kwargs[f] ELSE None

\* The same call with other keyword arguments.
Rebuild(kwargs) ==
    IF call.op = "AnnotationInfo" THEN AnnotationInfoInit(kwargs, 0)
    ELSE new_function(call.task, kwargs, 0)

Without(kwargs, f) == [p \in DOMAIN kwargs \ {f} |-> kwargs[p]]

Required(task) == SeqToSet(extra_required_fields[task])

\* Field f stays None on the record: it is passed as None (or left out) and
\* set_default_values cannot derive it.
StaysNull(f) ==
    /\ Passed(f) = None
    /\ ~(f = "bbox" /\ Passed("segmentation") # None)

\* C1: every record a construction returns has all the attributes of
\* extra_required_fields[task] non-null; and a call that binds and passes
\* field validation, but would leave one of them null, raises
\* FieldMissingError and returns no record.
C1_RequiredFieldsNonNull ==
    /\ \A i \in DOMAIN result :
           IsRecord(result[i]) =>
               \A f \in Required(result[i].rec.task.str) : result[i].rec[f] # None
    /\ (Built /\ \E f \in Required(call.task) : StaysNull(f)) =>
           /\ ~IsRecord(result[1])
           /\ result[1].err \notin {"TypeError", "FieldValidationError"} =>
                  RaisedErr(result[1], "FieldMissingError")

C1_Witness ==
    /\ call.op = REGRESSION
    /\ "value" \in DOMAIN call.kwargs
    /\ call.kwargs.value = None
    /\ RaisedErr(result[1], "FieldMissingError")
    /\ result[1].field = "value"

\* C2: for every factory, a call that leaves image_id out raises TypeError,
\* and a call that passes image_id=None with all other arguments valid
\* raises FieldMissingError; neither returns a record.
C2_OmittedVersusNone ==
    call.op \in TaskType =>
        /\ "image_id" \notin DOMAIN call.kwargs => RaisedErr(result[1], "TypeError")
        /\ ( /\ "image_id" \in DOMAIN call.kwargs
             /\ call.kwargs.image_id = None
             /\ IsRecord(Rebuild(Update(call.kwargs, [image_id |-> Str("test")]))) ) =>
               /\ RaisedErr(result[1], "FieldMissingError")
               /\ result[1].field = "image_id"

C2_Witness ==
    /\ call.op = KEYPOINT_DETECTION
    /\ "image_id" \in DOMAIN call.kwargs
    /\ call.kwargs.image_id = None
    /\ RaisedErr(result[1], "FieldMissingError")

\* C3: reading back the full mapping of a constructed record,
\* from_dict(task, record.to_dict()), returns a record equal to it.
C3_RoundTrip ==
    call.op = "round_trip" =>
        /\ IsRecord(result[2])
        /\ Eq(result[1].rec, result[2].rec)

C6_ScoreForcesIsPrediction ==
    \A i \in DOMAIN result :
        IsRecord(result[i]) =>
            /\ result[i].rec.score # None => result[i].rec.is_prediction = Bool(TRUE)
            /\ (result[i].rec.score = None /\ "is_prediction" \notin DOMAIN call.kwargs) =>
                   result[i].rec.is_prediction = Bool(FALSE)

C6_Witness ==
    /\ call.op = "AnnotationInfo"
    /\ Passed("is_prediction") = Bool(FALSE)
    /\ Passed("score") = Num(5)
    /\ IsRecord(result[1])
    /\ result[1].rec.is_prediction = Bool(TRUE)

\* An OBJECT_DETECTION record constructed with image_id and category_id,
\* without bbox, with the unit-square polygon as segmentation and no
\* invalid field.
BboxDerivable ==
    /\ call.op = "AnnotationInfo"
    /\ call.task = OBJECT_DETECTION
    /\ Passed("image_id") # None
    /\ Passed("category_id") # None
    /\ Passed("bbox") = None
    /\ Passed("segmentation") = UnitSquare
    /\ ~RaisedErr(result[1], "FieldValidationError")

C8_BboxLength ==
    (Built /\ IsLst(Passed("bbox")) /\ ~RaisedErr(result[1], "TypeError")) =>
        /\ Len(Passed("bbox").list) # 4 => RaisedErr(result[1], "FieldValidationError")
        /\ ( /\ Len(Passed("bbox").list) = 4
             /\ \A i \in 1..4 : Passed("bbox").list[i] >= 0 ) =>
               /\ ~(RaisedErr(result[1], "FieldValidationError") /\ result[1].field = "bbox")
               /\ IsRecord(Rebuild(Without(call.kwargs, "bbox"))) => IsRecord(result[1])

C8_Witness ==
    /\ call.op = OBJECT_DETECTION
    /\ Passed("bbox") = Lst(<<0, 0, 1, 1, 1>>)
    /\ RaisedErr(result[1], "FieldValidationError")

\* C9: a call that binds and passes a polygon segmentation with a sub-list
\* of odd length or of fewer than 6 elements raises FieldValidationError; a
\* polygon segmentation whose sub-lists all have even length >= 6 is never
\* the rejected field.
C9_SegmentationShape ==
    (Built /\ IsPoly(Passed("segmentation")) /\ ~RaisedErr(result[1], "TypeError")) =>
        /\ (\E i \in DOMAIN Passed("segmentation").poly :
                \/ Len(Passed("segmentation").poly[i]) % 2 = 1
                \/ Len(Passed("segmentation").poly[i]) < 6) =>
               RaisedErr(result[1], "FieldValidationError")
        /\ (\A i \in DOMAIN Passed("segmentation").poly :
                /\ Len(Passed("segmentation").poly[i]) % 2 = 0
                /\ Len(Passed("segmentation").poly[i]) >= 6) =>
               ~(RaisedErr(result[1], "FieldValidationError")
                 /\ result[1].field = "segmentation")

C9_Witness ==
    /\ call.op = SEMANTIC_SEGMENTATION
    /\ Passed("segmentation") = Poly(<<<<0, 0, 1, 0, 1, 1, 0>>>>)
    /\ Passed("area") = None
    /\ Passed("bbox") = None
    /\ RaisedErr(result[1], "FieldValidationError")

\* C10: a factory call that passes a string as area, all other arguments
\* being valid, raises FieldValidationError for area.
C10_AreaString ==
    ( /\ call.op \in TaskType
      /\ IsStr(Passed("area"))
      /\ IsRecord(Rebuild(Without(call.kwargs, "area"))) ) =>
        /\ RaisedErr(result[1], "FieldValidationError")
        /\ result[1].field = "area"

C10_Witness ==
    /\ call.op = KEYPOINT_DETECTION
    /\ Passed("area") = Str("asdf")
    /\ IsRecord(Rebuild(Without(call.kwargs, "area")))
    /\ RaisedErr(result[1], "FieldValidationError")

C13_SuppliedValuesKept ==
    (Built /\ IsRecord(result[1])) =>
        \A f \in {"bbox", "area", "iscrowd", "num_keypoints"} :
            Passed(f) # None => result[1].rec[f] = Passed(f)

C13_Witness ==
    /\ Built
    /\ IsRecord(result[1])
    /\ Passed("keypoints") = Lst(<<1, 1, 2, 2, 2, 0>>)
    /\ Passed("num_keypoints") = Num(5)
    /\ Passed("segmentation") = UnitSquare
    /\ Passed("bbox") = Lst(<<2, 3, 4, 5>>)
    /\ result[1].rec.num_keypoints = Num(5)
    /\ result[1].rec.bbox = Lst(<<2, 3, 4, 5>>)

\* C14: with area not passed, the record's area is the segmentation's area
\* whenever a segmentation is set (also next to a bbox), the XYWH box area
\* when only a bbox is set, and null when neither is; the unit square gives
\* bbox [0,0,1,1] and area 1.
C14_DerivedArea ==
    (Built /\ IsRecord(result[1]) /\ Passed("area") = None) =>
        /\ Passed("segmentation") # None =>
               result[1].rec.area = get_segmentation_area(Passed("segmentation"))
        /\ (Passed("segmentation") = None /\ Passed("bbox") # None) =>
               result[1].rec.area = Num(Passed("bbox").list[3] * Passed("bbox").list[4])
        /\ (Passed("segmentation") = None /\ Passed("bbox") = None) =>
               result[1].rec.area = None
        /\ Passed("segmentation") = UnitSquare => result[1].rec.area = Num(1)
        /\ (Passed("segmentation") = UnitSquare /\ Passed("bbox") = None) =>
               result[1].rec.bbox = Lst(<<0, 0, 1, 1>>)
        /\ Passed("segmentation")
               = Poly(<<<<1, 1, 3, 1, 3, 4, 1, 4>>, <<5, 5, 7, 5, 7, 7>>>>) =>
               result[1].rec.area = Num(8)

C14_Witness ==
    /\ Built
    /\ IsRecord(result[1])
    /\ Passed("area") = None
    /\ Passed("segmentation") = UnitSquare
    /\ Passed("bbox") = Lst(<<2, 3, 4, 5>>)
    /\ result[1].rec.area = Num(1)

\* The factories with an iscrowd parameter, whose default is 0.
IscrowdDefaulted ==
    call.op \in {OBJECT_DETECTION, SEMANTIC_SEGMENTATION, INSTANCE_SEGMENTATION,
                 KEYPOINT_DETECTION}

\* C15 as stated: iscrowd is non-null whenever bbox is non-null, and 0 when
\* the caller did not supply it; with bbox null and iscrowd not supplied,
\* iscrowd stays null.
C15_IscrowdFollowsBbox ==
    (Built /\ IsRecord(result[1])) =>
        /\ result[1].rec.bbox # None =>
               /\ result[1].rec.iscrowd # None
               /\ Passed("iscrowd") = None => result[1].rec.iscrowd = Num(0)
        /\ (result[1].rec.bbox = None /\ Passed("iscrowd") = None) =>
               result[1].rec.iscrowd = None

\* C15 as amended: with bbox null, iscrowd is what reaches the constructor:
\* null, except that a factory with an iscrowd parameter passes its default
\* 0 when the caller leaves iscrowd out (keypoint_detection with bbox=None).
C15_IscrowdFollowsBboxOrDefault ==
    (Built /\ IsRecord(result[1])) =>
        /\ result[1].rec.bbox # None =>
               /\ result[1].rec.iscrowd # None
               /\ Passed("iscrowd") = None => result[1].rec.iscrowd = Num(0)
        /\ (result[1].rec.bbox = None /\ Passed("iscrowd") = None) =>
               result[1].rec.iscrowd
                   = IF IscrowdDefaulted /\ "iscrowd" \notin DOMAIN call.kwargs
                     THEN Num(0) ELSE None

C15_Witness ==
    /\ call.op = KEYPOINT_DETECTION
    /\ IsRecord(result[1])
    /\ "bbox" \in DOMAIN call.kwargs
    /\ call.kwargs.bbox = None
    /\ result[1].rec.bbox = None
    /\ result[1].rec.iscrowd = Num(0)

C12_UpdateNoDerivationNoRequired ==
    (call.op = "UpdateAnnotationInfo") =>
        /\ (\A f \in DOMAIN call.kwargs \cap UpdateFields :
                FieldValid(f, call.kwargs[f])) =>
               \/ IsUpdate(result[1])
               \/ RaisedErr(result[1], "TypeError")
        /\ IsUpdate(result[1]) =>
               /\ \A f \in UpdateFields : result[1].rec[f] = Passed(f)
               /\ Passed("segmentation") # None /\ Passed("bbox") = None =>
                      result[1].rec.bbox = None /\ result[1].rec.area = None
               /\ Passed("bbox") # None =>
                      result[1].rec.area = None /\ result[1].rec.iscrowd = None
               /\ Passed("keypoints") # None => result[1].rec.num_keypoints = None
               /\ Passed("score") # None => result[1].rec.is_prediction = None
        /\ call.kwargs = <<>> =>
               /\ IsUpdate(result[1])
               /\ \A f \in UpdateFields : result[1].rec[f] = None

C12_Witness ==
    /\ call.op = "UpdateAnnotationInfo"
    /\ IsUpdate(result[1])
    /\ call.task = KEYPOINT_DETECTION
    /\ Passed("bbox") = Lst(<<2, 3, 4, 5>>)
    /\ Passed("keypoints") # None
    /\ Passed("score") = Num(5)
    /\ result[1].rec.area = None
    /\ result[1].rec.num_keypoints = None
    /\ result[1].rec.is_prediction = None

\* C17: under every interleaving of concurrent constructions,
\* extra_required_fields keeps its value, a step of one construction
\* leaves the other constructions' records and arguments as they were, and
\* each construction ends with the outcome it has when it runs alone.
C17_ConstructionsIndependent ==
    /\ [](table = extra_required_fields)
    /\ [][\A t \in Threads :
              pc'[t] = pc[t] => (records'[t] = records[t] /\ args'[t] = args[t])]_vars
    /\ [](\A t \in Threads :
              pc[t] \in {"done", "raised"} =>
                  records[t] = AnnotationInfoInit(args[t], t))

\* One construction ends while another is between two of its statements.
C17_Witness ==
    \E t, u \in Threads :
        /\ pc[t] = "done"
        /\ pc[u] = "area"
        /\ records[t].rec.task = Str(KEYPOINT_DETECTION)
        /\ records[u].rec.task = Str(INSTANCE_SEGMENTATION)
        /\ records[t].rec.bbox = Lst(<<2, 3, 4, 5>>)
        /\ records[u].rec.bbox = Lst(<<0, 0, 1, 1>>)

\* The file names of the images in the database.
DbFileNames == {r.file_name : r \in images}

C19_ImagesHaveFiles ==
    /\ (svc.op = "add_image" /\ svc.arg \notin disk) =>
           (svc.err = "FileNotFoundError" /\ images = svc.before)
    /\ ~externalDeletion => DbFileNames \subseteq disk

\* C20: _get_query_dict leaves the containers it receives and the default
\* containers of its signature as they were, so a call with no argument
\* returns empty filter_by, filter_in, filter_like and order_by, whatever
\* calls came before it.
C20_ContainersUntouched ==
    /\ \A c \in Containers :
           heap[Default(c)] = <<>> /\ heap[Caller(c)] = InitialHeap[Caller(c)]
    /\ (query.op = "_get_query_dict" /\ query.args = NoArgs
          /\ query.passed = [c \in Containers |-> Default(c)]) =>
           /\ query.ret.filter_by = <<>>
           /\ query.ret.filter_in = <<>>
           /\ query.ret.filter_like = <<>>
           /\ query.ret.order_by = <<>>
    /\ query.op = "_get_query_dict" =>
           /\ query.ret.filter_in =
                  Update(InitialHeap[query.passed["filter_in"]],
                         Update(Update(Update(Entry("id", query.args.id),
                                              Entry("image_id", query.args.image_id)),
                                       Entry("category_id", query.args.category_id)),
                                Entry("id", query.args.annotation_id)))
           /\ query.ret.filter_like = InitialHeap[query.passed["filter_like"]]
           /\ query.ret.order_by = InitialHeap[query.passed["order_by"]]

\* A call with no argument that follows calls with arguments set.
C20_Witness ==
    /\ query.op = "_get_query_dict"
    /\ query.args = NoArgs
    /\ query.passed = [c \in Containers |-> Default(c)]
    /\ query.earlier
    /\ query.ret.filter_in = <<>>
    /\ heap[Local("filter_in")] = <<>>

====
